---- MODULE Spec2Model ----
(***************************************************************************)
(* The POST /create_preference handler of pagos-ml (src/index.js and its   *)
(* near-duplicate src/unnamed/part_000): validation of the cart, the       *)
(* preference sent to Mercado Pago, and the response on success, on a      *)
(* rejected cart and on a failed provider call.                            *)
(*                                                                         *)
(* JavaScript values are records tagged by t.  A string is a sequence of   *)
(* text chunks in which every white-space character and every "/" is a     *)
(* chunk of its own, so that trim() and the regular expression /\/$/ act   *)
(* on it as they act on the characters.  A number is held in thousandths   *)
(* (19.999 is 19999).  One request is followed from its arrival to its     *)
(* response; the handler shares no mutable state between requests, so      *)
(* requests in flight at the same time behave as requests one after        *)
(* another.                                                                *)
(***************************************************************************)
EXTENDS Integers, Sequences, FiniteSets, TLC

VARIABLES file, env, BASE_URL, pc, req, sent, calls, upstream, res

vars == <<file, env, BASE_URL, pc, req, sent, calls, upstream, res>>

\* The longest cart a request carries.
MaxItems == 3

-----------------------------------------------------------------------------
(* JavaScript values *)

Undefined == [t |-> "undefined"]
Null == [t |-> "null"]
Num(m) == [t |-> "number", m |-> m]
Str(s) == [t |-> "string", s |-> s]
Arr(a) == [t |-> "array", a |-> a]

Item(title, quantity, unit_price) ==
  [t |-> "object", title |-> title, quantity |-> quantity,
   unit_price |-> unit_price]

Body(items) == [t |-> "object", items |-> items]

ErrorObject(message, status, cause, response) ==
  [t |-> "object", message |-> message, status |-> status, cause |-> cause,
   response |-> response]

\* typeof v
TypeOf(v) ==
  CASE v.t = "null" -> "object"
    [] v.t = "array" -> "object"
    [] OTHER -> v.t

\* ToBoolean(v), as `!v`, `v &&` and `v ||` use it
Truthy(v) ==
  CASE v.t = "undefined" -> FALSE
    [] v.t = "null" -> FALSE
    [] v.t = "number" -> v.m # 0
    [] v.t = "string" -> v.s # <<>>
    [] OTHER -> TRUE

\* v.k can be read: reading a property of null or undefined throws TypeError
Readable(v) == v.t \notin {"undefined", "null"}

\* v.k for a readable v; a property that an object does not have, and any of
\* the properties read here on a number, a string or an array, is undefined
Prop(v, k) ==
  IF v.t = "object" /\ k \in DOMAIN v THEN v[k] ELSE Undefined

IsSpace(c) == c \in {" ", "\t", "\n"}

RECURSIVE TrimStart(_)
TrimStart(s) ==
  IF s # <<>> /\ IsSpace(Head(s)) THEN TrimStart(Tail(s)) ELSE s

RECURSIVE TrimEnd(_)
TrimEnd(s) ==
  IF s # <<>> /\ IsSpace(s[Len(s)]) THEN TrimEnd(SubSeq(s, 1, Len(s) - 1))
  ELSE s

\* String.prototype.trim
Trim(s) == TrimEnd(TrimStart(s))

Abs(n) == IF n < 0 THEN 0 - n ELSE n

\* Number::toString of a number of at most three decimals: the shortest
\* decimal that reads back as the same double
NumberToString(m) ==
  LET a == Abs(m)
      whole == ToString(a \div 1000)
      f == a % 1000
      d1 == ToString(f \div 100)
      d2 == ToString((f \div 10) % 10)
      d3 == ToString(f % 10)
      frac == IF f = 0 THEN ""
              ELSE IF f % 100 = 0 THEN "." \o d1
              ELSE IF f % 10 = 0 THEN "." \o d1 \o d2
              ELSE "." \o d1 \o d2 \o d3
  IN (IF m < 0 THEN "-" ELSE "") \o whole \o frac

\* the properties JSON.stringify writes for an item, in insertion order
ItemKeys == <<"title", "quantity", "unit_price">>

RECURSIVE JSON_stringify(_)
RECURSIVE StringifyProps(_, _, _)
StringifyProps(v, i, first) ==
  IF i > Len(ItemKeys) THEN <<>>
  ELSE IF Prop(v, ItemKeys[i]).t = "undefined"
       THEN StringifyProps(v, i + 1, first)
       ELSE (IF first THEN <<>> ELSE <<",">>)
            \o <<"\"" \o ItemKeys[i] \o "\":">>
            \o JSON_stringify(Prop(v, ItemKeys[i]))
            \o StringifyProps(v, i + 1, FALSE)

\* JSON.stringify(v) as text chunks
JSON_stringify(v) ==
  CASE v.t = "null" -> <<"null">>
    [] v.t = "number" -> <<NumberToString(v.m)>>
    [] v.t = "string" -> <<"\"">> \o v.s \o <<"\"">>
    [] v.t = "object" -> <<"{">> \o StringifyProps(v, 1, TRUE) \o <<"}">>
    [] OTHER -> <<"undefined">>

-----------------------------------------------------------------------------
(* Number.prototype.toFixed(2) and parseFloat *)

\* The sign of (the double nearest to m/1000) - m/1000, for the prices whose
\* third decimal is 5: a multiple of 0.125 is a double, 0.005 is read as
\* 0.005000000000000000104, 0.015 as 0.01499999999999999944, 1.005 as
\* 1.00499999999999989, 1.015 as 1.01499999999999990
ReprErr(m) ==
  IF m % 125 = 0 THEN 0
  ELSE IF m \in {5} THEN 1
  ELSE IF m \in {15, 1005, 1015} THEN 0 - 1
  ELSE 0

TwoDigits(k) == ToString(k \div 10) \o ToString(k % 10)

\* toFixed(2) that cuts the further decimals off instead of rounding
ToFixed2Truncating(m) ==
  Str(<<ToString((m \div 10) \div 100), ".", TwoDigits((m \div 10) % 100)>>)

\* x.toFixed(2) of a number x >= 0: the integer n for which n/100 - x is as
\* close to zero as possible, the larger n of two, written with two decimals
ToFixed2(m) ==
  LET q == m \div 10
      r == m % 10
      n == IF r > 5 \/ (r = 5 /\ ReprErr(m) >= 0) THEN q + 1 ELSE q
  IN Str(<<ToString(n \div 100), ".", TwoDigits(n % 100)>>)

\* the whole parts and the pairs of decimals parseFloat is asked to read
ParseRange == 0 .. 99

\* parseFloat of a text `whole.dd`
ParseFloat(v) ==
  LET whole == CHOOSE k \in ParseRange : ToString(k) = v.s[1]
      cents == CHOOSE k \in ParseRange : TwoDigits(k) = v.s[3]
  IN Num((whole * 100 + cents) * 10)

-----------------------------------------------------------------------------
(* Process start: environment, BASE_URL *)

DefaultBaseUrl == Str(<<"http:", "/", "/", "localhost:3000">>)

\* (process.env.NEXT_PUBLIC_BASE_URL || "http://localhost:3000")
ConfiguredBaseUrl(e) ==
  IF Truthy(e.NEXT_PUBLIC_BASE_URL) THEN e.NEXT_PUBLIC_BASE_URL
  ELSE DefaultBaseUrl

\* s.replace(/\/$/, ""): one "/" at the end of the text is removed
StripTrailingSlash(v) ==
  IF v.s # <<>> /\ v.s[Len(v.s)] = "/" THEN Str(SubSeq(v.s, 1, Len(v.s) - 1))
  ELSE v

\* const BASE_URL, as each of the two files computes it
LoadBaseUrl(f, e) ==
  IF f = "part_000" THEN StripTrailingSlash(ConfiguredBaseUrl(e))
  ELSE ConfiguredBaseUrl(e)

\* if (!MP_ACCESS_TOKEN) process.exit(1), else app.listen
StartState(e) == IF Truthy(e.MP_ACCESS_TOKEN) THEN "listening" ELSE "exited"

-----------------------------------------------------------------------------
(* The handler *)

EmptyItemsMessage ==
  Str(<<"Items invalidos: se requiere un array de items no vacio.">>)

\* (the accents of the two texts are left out)
ItemMessagePrefix ==
  <<"Estructura de item invalida. Cada item debe tener 'title' (string no vacio), 'quantity' (number > 0) y 'unit_price' (number > 0). Item defectuoso: ">>

GenericMessage == Str(<<"Error desconocido al procesar la solicitud.">>)

\* the TypeError V8 throws for `const { items } = undefined`
DestructureError ==
  ErrorObject(
    Str(<<"Cannot destructure property 'items' of 'req.body' as it is undefined.">>),
    Undefined, Undefined, Undefined)

\* the TypeError V8 throws for `item.title` with item null
NullItemError ==
  ErrorObject(Str(<<"Cannot read properties of null (reading 'title')">>),
              Undefined, Undefined, Undefined)

\* the condition without its three `<= 0` comparisons
ItemInvalidNoRangeCheck(item) ==
  LET title == Prop(item, "title")
      quantity == Prop(item, "quantity")
      unit_price == Prop(item, "unit_price")
  IN \/ ~Truthy(title) \/ TypeOf(title) # "string" \/ Trim(title.s) = <<>>
     \/ ~Truthy(quantity) \/ TypeOf(quantity) # "number"
     \/ ~Truthy(unit_price) \/ TypeOf(unit_price) # "number"

\* the condition of the `if` in the loop over the items, item readable
ItemInvalid(item) ==
  LET title == Prop(item, "title")
      quantity == Prop(item, "quantity")
      unit_price == Prop(item, "unit_price")
  IN \/ ~Truthy(title) \/ TypeOf(title) # "string" \/ Trim(title.s) = <<>>
     \/ ~Truthy(quantity) \/ TypeOf(quantity) # "number" \/ quantity.m <= 0
     \/ ~Truthy(unit_price) \/ TypeOf(unit_price) # "number"
     \/ unit_price.m <= 0

\* the loop run from the last item to the first
RECURSIVE ValidateBackwards(_, _)
ValidateBackwards(a, i) ==
  IF i > Len(a) THEN [k |-> "valid"]
  ELSE IF ~Readable(a[Len(a) + 1 - i])
       THEN [k |-> "throw",
             error |-> ErrorObject(Str(<<"Cannot read properties of null (reading 'title')">>),
                                   Undefined, Undefined, Undefined)]
  ELSE IF ItemInvalid(a[Len(a) + 1 - i])
       THEN [k |-> "reject", item |-> a[Len(a) + 1 - i]]
  ELSE ValidateBackwards(a, i + 1)

\* for (const item of items): the first item that stops the loop, if any
RECURSIVE Validate(_, _)
Validate(a, i) ==
  IF i > Len(a) THEN [k |-> "valid"]
  ELSE IF ~Readable(a[i]) THEN [k |-> "throw", error |-> NullItemError]
  ELSE IF ItemInvalid(a[i]) THEN [k |-> "reject", item |-> a[i]]
  ELSE Validate(a, i + 1)

\* error.response && error.response.data
ResponseData(error) ==
  IF Truthy(Prop(error, "response")) THEN Prop(Prop(error, "response"), "data")
  ELSE Prop(error, "response")

\* errorMessage with the error's own message put before the API's
ErrorMessageOwnFirst(error) ==
  IF Truthy(error) /\ TypeOf(error) = "object"
  THEN IF Truthy(Prop(error, "message")) THEN Prop(error, "message")
       ELSE IF Truthy(ResponseData(error))
               /\ Truthy(Prop(ResponseData(error), "message"))
       THEN Prop(ResponseData(error), "message")
       ELSE GenericMessage
  ELSE GenericMessage

\* errorMessage at the end of the catch block
ErrorMessage(error) ==
  IF Truthy(error) /\ TypeOf(error) = "object"
  THEN IF Truthy(ResponseData(error))
          /\ Truthy(Prop(ResponseData(error), "message"))
       THEN Prop(ResponseData(error), "message")
       ELSE IF Truthy(Prop(error, "message")) THEN Prop(error, "message")
       ELSE GenericMessage
  ELSE GenericMessage

\* errorDetails at the end of the catch block
ErrorDetails(error) ==
  IF Truthy(error) /\ TypeOf(error) = "object"
  THEN LET keys == {k \in {"status", "cause"} : Truthy(Prop(error, k))}
                   \cup (IF Truthy(ResponseData(error)) THEN {"apiResponse"}
                         ELSE {})
       IN [k \in keys |-> IF k = "apiResponse" THEN ResponseData(error)
                          ELSE Prop(error, k)]
  ELSE [k \in {} |-> Undefined]

\* catch (error) { ... res.status(500).json({message, details}) }
Caught(error) ==
  [status |-> 500,
   body |-> [message |-> ErrorMessage(error), details |-> ErrorDetails(error)]]

RejectEmpty == [status |-> 400, body |-> [message |-> EmptyItemsMessage]]

RejectItem(item) ==
  [status |-> 400,
   body |-> [message |-> Str(ItemMessagePrefix \o JSON_stringify(item))]]

\* items.map(item => ({title, quantity, unit_price: parseFloat(toFixed(2))}))
MapItems(a) ==
  [i \in 1 .. Len(a) |->
     [title |-> a[i].title, quantity |-> a[i].quantity,
      unit_price |-> ParseFloat(ToFixed2(a[i].unit_price.m))]]

\* `${BASE_URL}/success` and the two others
BackUrls(base) ==
  [success |-> Str(base.s \o <<"/", "success">>),
   failure |-> Str(base.s \o <<"/", "failure">>),
   pending |-> Str(base.s \o <<"/", "pending">>)]

PreferenceData(a, base) == [items |-> MapItems(a), back_urls |-> BackUrls(base)]

\* the handler from its entry to its response or to the await
Handle(body, base) ==
  IF ~Readable(body) THEN [k |-> "respond", res |-> Caught(DestructureError)]
  ELSE LET items == Prop(body, "items") IN
    IF ~Truthy(items) \/ items.t # "array" \/ Len(items.a) = 0
    THEN [k |-> "respond", res |-> RejectEmpty]
    ELSE LET v == Validate(items.a, 1) IN
      CASE v.k = "throw" -> [k |-> "respond", res |-> Caught(v.error)]
        [] v.k = "reject" -> [k |-> "respond", res |-> RejectItem(v.item)]
        [] OTHER -> [k |-> "call", data |-> PreferenceData(items.a, base)]

\* res.json(response): the provider's whole response passed on
SucceededWholeResponse(response) == [status |-> 200, body |-> response]

\* res.json({ init_point: response.init_point }): status 200, and a property
\* whose value is undefined is not written
Succeeded(response) ==
  [status |-> 200,
   body |-> [k \in {x \in {"init_point"} : Prop(response, x).t # "undefined"}
               |-> Prop(response, k)]]

-----------------------------------------------------------------------------
(* Inputs *)

Environments ==
  [MP_ACCESS_TOKEN : {Undefined, Str(<<"TEST-1234">>)},
   NEXT_PUBLIC_BASE_URL :
     {Undefined, Str(<<"https:", "/", "/", "shop.example", "/">>)}]

Files == {"index.js", "part_000"}

Shirt == Str(<<"Shirt">>)

Titles == {Str(<<>>), Str(<<" ", " ">>), Str(<<" ", "a", " ">>), Num(7000)}

Quantities == {Undefined, Num(0 - 1000), Str(<<"2">>)}

Prices ==
  {Num(0), Num(0 - 3000), Str(<<"5">>),
   Num(1), Num(125), Num(1015), Num(19999)}

\* what an element of `items` may be after JSON.parse
Elements ==
  {Null, Num(5000), Item(Shirt, Num(2000), Num(5000))}
  \cup {Item(x, Num(2000), Num(5000)) : x \in Titles}
  \cup {Item(Shirt, x, Num(5000)) : x \in Quantities}
  \cup {Item(Shirt, Num(2000), x) : x \in Prices}

Carts == UNION {[1 .. n -> Elements] : n \in 0 .. MaxItems}

\* req.body: undefined when express.json() parsed nothing (Express 5), else
\* the parsed object or array
Bodies ==
  {Undefined, Body(Undefined), Body(Null), Body(Str(<<"x">>)), Body(Num(3000)),
   Body(Item(Shirt, Num(2000), Num(5000))), Arr(<<>>)}
  \cup {Body(Arr(c)) : c \in Carts}

CheckoutUrl(id) == Str(<<"https:", "/", "/", "pay.example", "/", id>>)

\* what preferencesService.create resolves with
ProviderResponses ==
  {[t |-> "object", id |-> Str(<<id>>), init_point |-> CheckoutUrl(id),
    sandbox_init_point |-> CheckoutUrl("sandbox-" \o id)] : id \in {"abc", "xyz"}}

ApiData(message) == [t |-> "object", message |-> message]

HttpResponse(data) == [t |-> "object", data |-> data]

\* what preferencesService.create rejects with
ThrownValues ==
  {Undefined, Null, Str(<<"boom">>)}
  \cup {ErrorObject(m, s, c, r) :
          m \in {Undefined, Str(<<>>), Str(<<"fetch failed">>), Num(42000)},
          s \in {Undefined, Num(400000)},
          c \in {Undefined, Str(<<"bad_request">>)},
          r \in {Undefined, HttpResponse(Undefined),
                 HttpResponse(ApiData(Str(<<>>))),
                 HttpResponse(ApiData(Str(<<"invalid token">>)))}}

-----------------------------------------------------------------------------
(* State machine *)

NoRequest == [t |-> "none"]
NotSent == [t |-> "none"]
NoResponse == [status |-> 0, body |-> [t |-> "none"]]
NoCall == [k |-> "none"]
Pending == [k |-> "pending"]

Init ==
  /\ file \in Files
  /\ env \in Environments
  /\ BASE_URL = LoadBaseUrl(file, env)
  /\ pc = StartState(env)
  /\ req = NoRequest
  /\ sent = NotSent
  /\ calls = 0
  /\ upstream = NoCall
  /\ res = NoResponse

\* a request arrives and the handler runs to its response or to
\* `await preferencesService.create({ body: preferenceData })`
HandleRequest ==
  /\ pc = "listening"
  /\ \E b \in Bodies :
       LET h == Handle(b, BASE_URL) IN
         /\ req' = b
         /\ IF h.k = "call"
            THEN /\ sent' = h.data
                 /\ calls' = calls + 1
                 /\ upstream' = Pending
                 /\ res' = NoResponse
                 /\ pc' = "awaiting"
            ELSE /\ sent' = NotSent
                 /\ calls' = 0
                 /\ upstream' = NoCall
                 /\ res' = h.res
                 /\ pc' = "responded"
  /\ UNCHANGED <<file, env, BASE_URL>>

\* the provider's promise resolves
ProviderResolves ==
  /\ pc = "awaiting"
  /\ \E r \in ProviderResponses :
       /\ upstream' = [k |-> "resolved", v |-> r]
       /\ res' = Succeeded(r)
  /\ pc' = "responded"
  /\ UNCHANGED <<file, env, BASE_URL, req, sent, calls>>

\* the provider's promise rejects
ProviderRejects ==
  /\ pc = "awaiting"
  /\ \E e \in ThrownValues :
       /\ upstream' = [k |-> "rejected", v |-> e]
       /\ res' = Caught(e)
  /\ pc' = "responded"
  /\ UNCHANGED <<file, env, BASE_URL, req, sent, calls>>

\* the response is sent and the handler has returned: nothing of the request
\* is kept, and the server waits for the next one
RequestDone ==
  /\ pc = "responded"
  /\ pc' = "listening"
  /\ req' = NoRequest
  /\ sent' = NotSent
  /\ calls' = 0
  /\ upstream' = NoCall
  /\ res' = NoResponse
  /\ UNCHANGED <<file, env, BASE_URL>>

Next == HandleRequest \/ ProviderResolves \/ ProviderRejects \/ RequestDone

Spec == Init /\ [][Next]_vars

-----------------------------------------------------------------------------
(* What the specification says of a request, stated without the handler's  *)
(* own operators                                                           *)

\* the request carries a non-empty array of items
HasCart ==
  /\ req.t = "object"
  /\ "items" \in DOMAIN req
  /\ req.items.t = "array"
  /\ req.items.a # <<>>

Field(e, k) == IF e.t = "object" THEN e[k] ELSE Undefined

AllSpaces(s) == \A i \in 1 .. Len(s) : s[i] \in {" ", "\t", "\n"}

\* an element that is no CartItem: title missing, not a string or empty after
\* trimming; quantity or unit_price missing, not a number or <= 0
NotCartItem(e) ==
  \/ Field(e, "title").t # "string"
  \/ AllSpaces(Field(e, "title").s)
  \/ Field(e, "quantity").t # "number"
  \/ Field(e, "quantity").m <= 0
  \/ Field(e, "unit_price").t # "number"
  \/ Field(e, "unit_price").m <= 0

HasInvalidItem == \E i \in 1 .. Len(req.items.a) : NotCartItem(req.items.a[i])

FirstInvalid ==
  CHOOSE i \in 1 .. Len(req.items.a) :
    /\ NotCartItem(req.items.a[i])
    /\ \A j \in 1 .. (i - 1) : ~NotCartItem(req.items.a[j])

\* the text `needle` occurs in the text `hay`
Contains(hay, needle) ==
  \E i \in 0 .. (Len(hay) - Len(needle)) :
    SubSeq(hay, i + 1, i + Len(needle)) = needle

Answered == pc = "responded"

-----------------------------------------------------------------------------
\* C1: every request whose body has no `items`, whose `items` is no array or
\* is an empty array, and every request with no parsed body at all, is
\* answered with status 400.
C1_NoItemsIs400 ==
  (Answered /\ req # NoRequest /\ ~HasCart) => res.status = 400

\* C2: a request whose non-empty `items` array holds an element (of any JSON
\* value, null included) that is no CartItem is answered with status 400 and
\* a message that contains the JSON serialization of that element (of the
\* first such element, when there are several).
C2_InvalidItemIs400 ==
  (Answered /\ HasCart /\ HasInvalidItem) =>
    /\ res.status = 400
    /\ Contains(res.body.message.s, JSON_stringify(req.items.a[FirstInvalid]))

\* a sent price is a number of two decimals nearest to the input price, the
\* double that the input denotes deciding between two decimals as near
RoundedTo2(out, in) ==
  /\ out.t = "number"
  /\ out.m % 10 = 0
  /\ Abs(out.m - in.m) <= 5
  /\ (Abs(out.m - in.m) = 5 /\ ReprErr(in.m) > 0) => out.m > in.m
  /\ (Abs(out.m - in.m) = 5 /\ ReprErr(in.m) < 0) => out.m < in.m

\* C3: for a cart that passes validation, the items sent to the provider are
\* as many as the input items, the i-th with the i-th input title and
\* quantity unchanged and the i-th input unit_price rounded to 2 decimals.
C3_SentItemsRounded ==
  (sent # NotSent) =>
    /\ HasCart
    /\ DOMAIN sent.items = 1 .. Len(req.items.a)
    /\ \A i \in 1 .. Len(req.items.a) :
         /\ sent.items[i].title = req.items.a[i].title
         /\ sent.items[i].quantity = req.items.a[i].quantity
         /\ RoundedTo2(sent.items[i].unit_price, req.items.a[i].unit_price)

\* a cart of MaxItems items in which 19.999 is sent as 20.00 and a later
\* 1.015 as 1.01
C3_Witness ==
  /\ sent # NotSent
  /\ Len(req.items.a) >= 2
  /\ req.items.a[1].unit_price = Num(19999)
  /\ sent.items[1].unit_price = Num(20000)
  /\ req.items.a[2].unit_price = Num(1015)
  /\ sent.items[2].unit_price = Num(1010)

\* the configured base URL, and the same without its trailing slash
ClaimedBase ==
  IF env.NEXT_PUBLIC_BASE_URL.t = "string" /\ env.NEXT_PUBLIC_BASE_URL.s # <<>>
  THEN env.NEXT_PUBLIC_BASE_URL.s
  ELSE <<"http:", "/", "/", "localhost:3000">>

ClaimedStripped ==
  IF ClaimedBase[Len(ClaimedBase)] = "/"
  THEN SubSeq(ClaimedBase, 1, Len(ClaimedBase) - 1)
  ELSE ClaimedBase

\* C4: for every configured base URL, ending with "/" or not, the three
\* redirect URLs sent are the base URL without its trailing slash followed
\* by /success, /failure and /pending, with no double slash at the join.
C4_RedirectUrls ==
  (sent # NotSent) =>
    /\ sent.back_urls.success.s = ClaimedStripped \o <<"/", "success">>
    /\ sent.back_urls.failure.s = ClaimedStripped \o <<"/", "failure">>
    /\ sent.back_urls.pending.s = ClaimedStripped \o <<"/", "pending">>
    /\ \A u \in {"success", "failure", "pending"} :
         LET url == sent.back_urls[u].s IN
           ~(url[Len(url) - 1] = "/" /\ url[Len(url) - 2] = "/")

\* C5: when the provider's create resolves, the response has status 200 and
\* a body of exactly one field, init_point, with the provider's init_point.
C5_SuccessBody ==
  (upstream.k = "resolved") =>
    /\ res.status = 200
    /\ DOMAIN res.body = {"init_point"}
    /\ res.body.init_point = upstream.v.init_point

C5_Witness ==
  /\ Answered
  /\ upstream.k = "resolved"
  /\ upstream.v.id = Str(<<"abc">>)
  /\ res.body.init_point = Str(<<"https:", "/", "/", "pay.example", "/", "abc">>)

\* C6: when the provider's create fails with any thrown value, the response
\* has status 500 and its body a `message` that is a non-empty string and a
\* `details` object.
C6_FailureBody ==
  (upstream.k = "rejected") =>
    /\ res.status = 500
    /\ DOMAIN res.body = {"message", "details"}
    /\ res.body.message.t = "string"
    /\ res.body.message.s # <<>>

\* C7: the provider is invoked at most once per request and only for a cart
\* of which every item passed validation; a request answered with 400 never
\* invoked it; a failed call is answered at once and not made again.
C7_CallDiscipline ==
  /\ calls <= 1
  /\ (calls = 1) <=> (upstream.k \in {"pending", "resolved", "rejected"})
  /\ (calls = 1) => (HasCart /\ ~HasInvalidItem)
  /\ (res.status = 400) => (calls = 0 /\ sent = NotSent)
  /\ (upstream.k = "rejected") => (Answered /\ res.status = 500 /\ calls = 1)
  /\ (pc = "awaiting") <=> (upstream.k = "pending")

\* a failed provider call, answered with 500 after a single invocation
C7_Witness ==
  /\ Answered
  /\ calls = 1
  /\ upstream.k = "rejected"
  /\ Len(req.items.a) = MaxItems

\* the text that follows the fixed part of the 400 message
Reported == SubSeq(res.body.message.s, Len(ItemMessagePrefix) + 1,
                   Len(res.body.message.s))

Carried(e, k) == IF e.t = "object" THEN e[k] ELSE Undefined

CarriedData(e) ==
  IF Carried(e, "response").t = "object" THEN Carried(e, "response").data
  ELSE Undefined

CarriedApiMessage(e) ==
  IF CarriedData(e).t = "object" THEN CarriedData(e).message ELSE Undefined

Present(v) == v.t # "undefined"

\* message and details by precedence, `has` saying what counts as carried
ByPrecedence(e, has(_)) ==
  /\ res.body.message =
       IF has(CarriedApiMessage(e)) THEN CarriedApiMessage(e)
       ELSE IF has(Carried(e, "message")) THEN Carried(e, "message")
       ELSE Str(<<"Error desconocido al procesar la solicitud.">>)
  /\ DOMAIN res.body.details =
       {k \in {"status", "cause"} : has(Carried(e, k))}
       \cup {k \in {"apiResponse"} : has(CarriedData(e))}
  /\ \A k \in DOMAIN res.body.details :
       res.body.details[k] =
         IF k = "apiResponse" THEN CarriedData(e) ELSE Carried(e, k)

\* C9 as stated: on provider failure `message` is response.data.message when
\* present, else the error's message when present, else the generic text, and
\* `details` holds status, cause and apiResponse exactly when the thrown
\* error carries status, cause and response.data.
C9_PrecedenceByPresence ==
  (upstream.k = "rejected") => ByPrecedence(upstream.v, Present)

\* C9 amended: the same with "present" and "carries" read as "is truthy":
\* an empty message, like an absent one, gives way to the next in line.
C9_PrecedenceByTruthiness ==
  (upstream.k = "rejected") => ByPrecedence(upstream.v, Truthy)

\* {status: 400, response: {data: {message: "invalid token"}}} is thrown
C9_Witness ==
  /\ Answered
  /\ upstream.k = "rejected"
  /\ upstream.v = ErrorObject(Undefined, Num(400000), Undefined,
                              HttpResponse(ApiData(Str(<<"invalid token">>))))
  /\ res.status = 500
  /\ res.body.message = Str(<<"invalid token">>)
  /\ DOMAIN res.body.details = {"status", "apiResponse"}
  /\ res.body.details.status = Num(400000)
  /\ res.body.details.apiResponse = ApiData(Str(<<"invalid token">>))

\* C10: every item sent to the provider is a CartItem after normalization:
\* its title a non-empty string, its quantity a number > 0 and its rounded
\* unit_price a number > 0, prices below 0.005 included.
C10_SentItemsAreCartItems ==
  (sent # NotSent) =>
    \A i \in DOMAIN sent.items :
      /\ sent.items[i].title.t = "string"
      /\ sent.items[i].title.s # <<>>
      /\ sent.items[i].quantity.t = "number"
      /\ sent.items[i].quantity.m > 0
      /\ sent.items[i].unit_price.t = "number"
      /\ sent.items[i].unit_price.m > 0

====
